---- MODULE Spec2Model ----
(***************************************************************************)
(* sbomplay: the rate-governed batch fetcher (app.py analyze /             *)
(* analyze_organization, utils/github_client.py) and the stores it writes  *)
(* (utils/database.py), as a state machine.                                *)
(*                                                                         *)
(* Every HTTP response, every local I/O outcome and every sqlite outcome   *)
(* is chosen by the environment.  A scan is one worker: the request        *)
(* handler analyze() up to thread.start(), then the thread running         *)
(* analyze_organization().                                                 *)
(*                                                                         *)
(* SpecStore is the same process serving the result pages: the queries of  *)
(* utils/sbom_processor.py over the documents the scans have stored.       *)
(* SpecSessions is the dashboard's list of sessions                        *)
(* (get_analysis_sessions) over the rows the scans create and update.      *)
(***************************************************************************)
EXTENDS Integers, Sequences, FiniteSets, TLC

\* ------------------------------------------------------------------ bounds
\* Largest number of public repositories the forge lists for the organization.
MaxRepos == 3
\* Largest X-RateLimit-Reset distance (seconds into the future) the forge sends.
MaxWait == 1
\* Number of repositories whose documents the queried store may hold.
MaxStored == 2
\* Largest limit passed to get_top_dependencies and get_analysis_sessions.
MaxLimit == 4
\* Number of seconds after the first session's in which sessions are created.
MaxClock == 1
\* Number of sessions the listed session table may hold.
MaxSessions == 3
\* Number of public repositories of the large organization (the long scan).
LongRepos == 20

\* ------------------------------------------------------- program constants
\* Mutant: one more retry than the code allows.
RetriesOneMore == 3 + 1
\* github_client.py:69 and :78  `if retry_count > 3`, `if retry_count < 3`
MaxRetries == 3
\* github_client.py:41  `time.sleep(wait_time + 2)`
RateBuffer == 2
\* app.py:151  `if processed_count % 20 == 0`
MonitorEvery == 20
\* app.py:161  `if processed_count % 5 == 0`
PaceEvery == 5
\* app.py:155  `if remaining <= 10`
WarnQuota == 10
\* app.py:165  `if remaining <= 20`
LowQuota == 20

\* The concurrent start-scan requests (each becomes at most one scan thread).
Workers == {"w1", "w2"}
SessionIds == 1..Cardinality(Workers)

\* ------------------------------------------------------------ repositories
Owner == "acme"
PublicRepo(i) == [owner |-> Owner, name |-> i, visibility |-> "public"]
PrivateRepo == [owner |-> Owner, name |-> 0, visibility |-> "private"]
\* f"{owner}/{repo_name}"
FullName(repo) == <<repo.owner, repo.name>>
RepoKeys == {FullName(PublicRepo(i)) : i \in 1..MaxRepos} \cup {FullName(PrivateRepo)}

Ascending(k) == [i \in 1..k |-> PublicRepo(i)]
Descending(k) == [i \in 1..k |-> PublicRepo(k + 1 - i)]
\* What the forge may answer to "list repositories of org": up to MaxRepos public
\* repositories in either order, with or without a private one in front.
Listings ==
    LET pub == {Ascending(k) : k \in 0..MaxRepos} \cup {Descending(k) : k \in 0..MaxRepos}
    IN  pub \cup {<<PrivateRepo>> \o l : l \in pub}

\* The listings of the lean environment: one or two public repositories.
LeanListings ==
    {Ascending(1), Ascending(2), Descending(2), <<PrivateRepo>> \o Ascending(1)}

\* ------------------------------------------------------------ BOM documents
\* A text value is a sequence of characters; Null is SQL NULL, which json_extract
\* returns for a JSON null and for a path that is not there.
Null == <<"NULL">>
IdA == <<"n", "p", "m", "-", "a">>
IdB == <<"n", "p", "m", "-", "b">>
IdActionLower == <<"g", "i", "t", "h", "u", "b", "a", "c", "t", "i", "o", "n", "s", "-", "x">>
IdActionMixed == <<"x", "-", "G", "i", "t", "H", "u", "b", "A", "c", "t", "i", "o", "n">>
NameA == <<"a">>
NameB == <<"b">>
Ver1 == <<"1", ".", "0">>
Mit == <<"M", "I", "T">>

\* One element of the array at $.sbom.packages: a JSON object with the fields it
\* has (Null where it has none), ...
Pkg(id, name, version, license) ==
    [type |-> "object", SPDXID |-> id, name |-> name, versionInfo |-> version,
     licenseConcluded |-> license]
\* ... or a JSON string that is not itself JSON text (such as "left-pad").
StringElement ==
    [type |-> "string", SPDXID |-> Null, name |-> Null, versionInfo |-> Null,
     licenseConcluded |-> Null]

\* The document tree as far as the queries read it: what is at $.sbom.packages
\* ("array", "object": its elements / member values in `packages`; "string": a
\* JSON string; "missing": nothing at that path).
Doc(shape, packages) == [shape |-> shape, packages |-> packages]
NoDoc == Doc("none", <<>>)
\* The example of the documentation: A twice, B once.
BomA == Doc("array", <<Pkg(IdA, NameA, Ver1, Mit), Pkg(IdA, NameA, Ver1, Mit),
                       Pkg(IdB, NameB, Null, Null)>>)
\* A and B once each, two GitHub Actions packages and an entry without SPDXID.
BomB == Doc("array", <<Pkg(IdA, NameA, Ver1, Null), Pkg(IdB, Null, Null, Null),
                       Pkg(IdActionLower, Null, Null, Null),
                       Pkg(IdActionMixed, Null, Null, Null),
                       Pkg(Null, NameB, Null, Null)>>)
BomEmpty == Doc("array", <<>>)
BomNoPackages == Doc("missing", <<>>)
BomPackagesString == Doc("string", <<>>)
BomStringElement == Doc("array", <<Pkg(IdB, NameB, Ver1, Mit), StringElement>>)
\* BOM documents the forge serves to a scan (two, so that a replaced document
\* shows).
Docs == {BomA, BomB}
\* Documents a store may hold when it is queried.
StoredDocs == Docs \cup {BomEmpty, BomNoPackages, BomPackagesString, BomStringElement}

\* --------------------------------------------------------------- responses
NoHeader == "absent"
\* str(core.get('remaining', 'Unknown')) of a /rate_limit body without the field.
Unknown == "Unknown"
\* A requests.Response: status code, the X-RateLimit-Remaining header, the
\* X-RateLimit-Reset header (hasReset; wait = reset - int(time.time())), and the
\* body (jsonOk: response.json() parses; doc / listing: what it parses to; core:
\* the text of resources.core.remaining in a /rate_limit body).
Resp(st, rem, hr, w, ok, d, l) ==
    [status |-> st, remaining |-> rem, hasReset |-> hr, wait |-> w,
     jsonOk |-> ok, doc |-> d, listing |-> l, core |-> Unknown]
\* _make_request returning None.
None == Resp(0, NoHeader, FALSE, 0, FALSE, NoDoc, <<>>)

ErrorResponses ==
    {Resp(st, "7", FALSE, 0, FALSE, NoDoc, <<>>) : st \in {404, 401, 422, 500}}
\* 403: quota exhausted ('0') without a reset header, with one that is not in the
\* future (wait 0) or with one that is (wait 1..MaxWait); or access denied with
\* quota left.
Forbidden ==
    {Resp(403, "0", FALSE, 0, FALSE, NoDoc, <<>>), Resp(403, "7", FALSE, 0, FALSE, NoDoc, <<>>)}
        \cup {Resp(403, "0", TRUE, w, FALSE, NoDoc, <<>>) : w \in 0..MaxWait}
SbomResponses ==
    {Resp(200, "7", FALSE, 0, TRUE, d, <<>>) : d \in Docs}
        \cup {Resp(200, "7", FALSE, 0, FALSE, NoDoc, <<>>)}
ListResponses ==
    {Resp(200, "7", FALSE, 0, TRUE, NoDoc, l) : l \in Listings}
        \cup {Resp(200, "7", FALSE, 0, FALSE, NoDoc, <<>>)}
\* The remaining quota a /rate_limit body may report: at and next to the
\* thresholds of app.py:155 and :165.
QuotaTexts == {"10", "11", "20", "21"}
\* GET /rate_limit: 200 with the remaining quota, without the field, or with a
\* body that is no JSON.
RateLimitResponses ==
    {[Resp(200, "7", FALSE, 0, TRUE, NoDoc, <<>>) EXCEPT !.core = c] :
            c \in QuotaTexts \cup {Unknown}}
        \cup {Resp(200, "7", FALSE, 0, FALSE, NoDoc, <<>>)}
\* The request kinds of get_rate_limit_info: the monitoring poll of app.py:153
\* and the pacing poll of app.py:163.
RateKinds == {"monitor", "pacing"}
\* The full environment answers anything; the lean one (two concurrent scans)
\* answers 200 with a parsable body or 404; the long one (one scan of a large
\* organization without dependency graphs) lists LongRepos repositories, has no
\* BOM (404) and answers a quota poll with any 200 or with 404.
Responses(kind, e) ==
    LET all == ErrorResponses \cup Forbidden
                 \cup (IF kind = "list" THEN ListResponses
                       ELSE IF kind \in RateKinds THEN RateLimitResponses
                       ELSE SbomResponses)
    IN  IF e = "full" THEN all
        ELSE IF e = "long"
        THEN IF kind = "list" THEN {Resp(200, "7", FALSE, 0, TRUE, NoDoc, Ascending(LongRepos))}
             ELSE IF kind \in RateKinds THEN RateLimitResponses \cup {r \in all : r.status = 404}
             ELSE {r \in all : r.status = 404}
        ELSE {r \in all : \/ r.status = 404
                           \/ /\ r.status = 200
                              /\ r.jsonOk
                              /\ kind = "list" => r.listing \in LeanListings}

VARIABLES
    env,                \* how adversarial the environment is: "full", "lean" or "long"
    pc,                 \* where each worker stands
    rq,                 \* the _make_request call in progress: kind, retry_count, calls made
    resp,               \* what _make_request returned to its caller
    timer,              \* time.sleep() of _handle_rate_limit: seconds left, seconds to reset
    repos,              \* analyze_organization's argument: the public repositories
    idx,                \* how many repositories the for loop has taken
    sid,                \* session_id of the scan
    processed_count,    \* analyze_organization's local counter
    sbom_file,          \* the document fetch_sbom saved for the current repository
    flash,              \* what the start-scan request answered
    log,                \* history: the outcome of each repository taken so far, the
                        \* quota polls made and the pacing delays slept
    analysis_progress,  \* app.py global dict, keyed by session id
    analysis_sessions,  \* table analysis_sessions, row id = index
    sbom,               \* table sbom: rows (source_repo, json_content) in rowid order
    answer              \* what the last store operation or query returned

vars == <<env, pc, rq, resp, timer, repos, idx, sid, processed_count, sbom_file, flash,
          log, analysis_progress, analysis_sessions, sbom, answer>>

NoRq == [kind |-> "none", retry_count |-> 0, calls |-> 0]
NoTimer == [sleep |-> 0, reset |-> 0]
NoKey == <<>>
\* Nothing asked yet.
NoAnswer == [op |-> "none", key |-> NoKey, limit |-> 0, error |-> FALSE, rows |-> <<>>]
NoProgress == [status |-> "none", processed |-> 0, total |-> 0,
               current_repo |-> <<>>, errors |-> <<>>]

\* Either one scan against the full environment (every response, network,
\* file and sqlite failure), or two concurrent scans against the lean one, or
\* one scan against the long one.
Init ==
    /\ \/ /\ env \in {"full", "long"}
          /\ pc = [p \in Workers |-> IF p = "w1" THEN "idle" ELSE "off"]
       \/ /\ env = "lean"
          /\ pc = [p \in Workers |-> "idle"]
    /\ rq = [p \in Workers |-> NoRq]
    /\ resp = [p \in Workers |-> None]
    /\ timer = [p \in Workers |-> NoTimer]
    /\ repos = [p \in Workers |-> <<>>]
    /\ idx = [p \in Workers |-> 0]
    /\ sid = [p \in Workers |-> 0]
    /\ processed_count = [p \in Workers |-> 0]
    /\ sbom_file = [p \in Workers |-> NoDoc]
    /\ flash = [p \in Workers |-> "none"]
    /\ log = [p \in Workers |-> <<>>]
    /\ analysis_progress = [s \in SessionIds |-> NoProgress]
    /\ analysis_sessions = <<>>
    /\ sbom = <<>>
    /\ answer = NoAnswer

\* ------------------------------------------------------------ GitHubClient
\* requests.Response.__bool__ is Response.ok: `not response` is true for None and
\* for every response with status >= 400.
Falsy(r) == r = None \/ r.status >= 400

\* _handle_rate_limit: True (after sleeping wait_time + 2) only for a 403 with
\* X-RateLimit-Remaining '0' and a reset time in the future.
HandleRateLimit(r) ==
    /\ r.status = 403
    /\ r.remaining = "0"
    /\ r.hasReset
    /\ r.wait > 0

\* Mutant: the sleep ends at the reset time, without the buffer.
SleepNoBuffer(wait_time) == wait_time

\* _handle_rate_limit, line 41: time.sleep(wait_time + 2).
SleepTime(wait_time) == wait_time + RateBuffer

\* _make_request, line 78: the request is re-issued after a wait only while
\* retry_count < 3.
MayRetry(retry_count) == retry_count < MaxRetries

\* Mutant: an error status other than 404 is raised (raise_for_status) instead
\* of being returned as None.
FetchSbomRaises(r, ioOk) ==
    IF r = None \/ r.status = 404 THEN "absent"
    ELSE IF r.status >= 400 THEN "HTTPError"
    ELSE IF r.status = 200
         THEN IF ~r.jsonOk THEN "JSONDecodeError"
              ELSE IF ~ioOk THEN "OSError"
              ELSE "file"
    ELSE "absent"

\* fetch_sbom after _make_request: "absent" (None), "file" (saved, name returned)
\* or the exception it lets through.  ioOk: makedirs/open/json.dump succeed.
FetchSbomResult(r, ioOk) ==
    IF Falsy(r) THEN "absent"
    ELSE IF r.status = 200
         THEN IF ~r.jsonOk THEN "JSONDecodeError"
              ELSE IF ~ioOk THEN "OSError"
              ELSE "file"
    ELSE "absent"

\* get_repositories after _make_request: "ok" or the exception raised.
GetRepositoriesResult(r) ==
    IF Falsy(r) THEN "Failed to fetch repositories"
    ELSE IF r.status # 200
         THEN IF r.status = 404 THEN "Organization not found"
              ELSE IF r.status = 403 THEN "Access denied"
              ELSE "Failed to fetch repositories: status"
    ELSE IF ~r.jsonOk THEN "JSONDecodeError"
    ELSE "ok"

\* Mutant: the listing is taken as it is, private repositories included.
PublicOnlyUnfiltered(l) == l

\* get_rate_limit_info after _make_request: the text at 'remaining' of the dict
\* returned ('Unknown' without a 200), or the exception response.json() raises
\* on a 200 whose body is no JSON.
GetRateLimitInfo(r) ==
    IF ~Falsy(r) /\ r.status = 200
    THEN IF r.jsonOk THEN r.core ELSE "JSONDecodeError"
    ELSE Unknown

\* int(text): the number, or ValueError (-1) for a text that is none.
IntOf(text) ==
    CASE text = "10" -> 10
      [] text = "11" -> 11
      [] text = "20" -> 20
      [] text = "21" -> 21
      [] OTHER -> -1
ValueError(text) == IntOf(text) = -1

\* get_public_repositories: the listing filtered on visibility == 'public'.
PublicOnly(l) == SelectSeq(l, LAMBDA repo : repo.visibility = "public")

\* One requests.get of _make_request and what follows it up to the return or the
\* sleep of _handle_rate_limit.
HttpCall(p) ==
    /\ pc[p] = "http"
    /\ IF rq[p].retry_count > MaxRetries
       THEN /\ resp' = [resp EXCEPT ![p] = None]
            /\ pc' = [pc EXCEPT ![p] = "ret"]
            /\ UNCHANGED <<rq, timer>>
       ELSE /\ rq' = [rq EXCEPT ![p].calls = @ + 1]
            /\ \/ \* requests.exceptions.RequestException
                  /\ env = "full"
                  /\ resp' = [resp EXCEPT ![p] = None]
                  /\ pc' = [pc EXCEPT ![p] = "ret"]
                  /\ UNCHANGED timer
               \/ \E r \in Responses(rq[p].kind, env) :
                    /\ resp' = [resp EXCEPT ![p] = r]
                    /\ IF HandleRateLimit(r)
                       THEN /\ timer' = [timer EXCEPT ![p] =
                                    [sleep |-> SleepTime(r.wait), reset |-> r.wait]]
                            /\ pc' = [pc EXCEPT ![p] = "sleep"]
                       ELSE /\ pc' = [pc EXCEPT ![p] = "ret"]
                            /\ UNCHANGED timer
    /\ UNCHANGED <<answer, env, repos, idx, sid, processed_count, sbom_file, flash, log,
                   analysis_progress, analysis_sessions, sbom>>

\* One second passes for every worker inside time.sleep.
Tick ==
    /\ \E p \in Workers : timer[p].sleep > 0
    /\ timer' = [p \in Workers |->
                    IF timer[p].sleep > 0
                    THEN [sleep |-> timer[p].sleep - 1, reset |-> timer[p].reset - 1]
                    ELSE timer[p]]
    /\ UNCHANGED <<answer, env, pc, rq, resp, repos, idx, sid, processed_count, sbom_file, flash,
                   log, analysis_progress, analysis_sessions, sbom>>

\* Mutant: every attempt that ends a wait is counted as progress.
WakeCountsAttempt(p) ==
    /\ pc[p] = "sleep"
    /\ timer[p].sleep = 0
    /\ timer' = [timer EXCEPT ![p] = NoTimer]
    /\ resp' = [resp EXCEPT ![p] = None]
    /\ processed_count' = [processed_count EXCEPT ![p] = @ + 1]
    /\ IF rq[p].retry_count < MaxRetries
       THEN /\ rq' = [rq EXCEPT ![p].retry_count = @ + 1]
            /\ pc' = [pc EXCEPT ![p] = "http"]
       ELSE /\ pc' = [pc EXCEPT ![p] = "ret"]
            /\ UNCHANGED rq
    /\ UNCHANGED <<answer, env, repos, idx, sid, sbom_file, flash, log,
                   analysis_progress, analysis_sessions, sbom>>

\* time.sleep returns, _handle_rate_limit returns True: retry or give up.
Wake(p) ==
    /\ pc[p] = "sleep"
    /\ timer[p].sleep = 0
    /\ timer' = [timer EXCEPT ![p] = NoTimer]
    /\ resp' = [resp EXCEPT ![p] = None]
    /\ IF MayRetry(rq[p].retry_count)
       THEN /\ rq' = [rq EXCEPT ![p].retry_count = @ + 1]
            /\ pc' = [pc EXCEPT ![p] = "http"]
       ELSE /\ pc' = [pc EXCEPT ![p] = "ret"]
            /\ UNCHANGED rq
    /\ UNCHANGED <<answer, env, repos, idx, sid, processed_count, sbom_file, flash, log,
                   analysis_progress, analysis_sessions, sbom>>

\* -------------------------------------------------------- DatabaseManager
\* created_at DEFAULT CURRENT_TIMESTAMP (database.py:33) has a resolution of one
\* second: the seconds at which a row inserted after `rows` may be stamped,
\* counted from the second of the first row.
Latest(rows) ==
    IF rows = <<>> THEN 0 ELSE rows[Len(rows)].created_at
Timestamps(rows) ==
    IF rows = <<>> THEN {0} ELSE Latest(rows)..MaxClock

\* create_analysis_session: INSERT ... (org_name, total_repos, 0); status defaults
\* to 'pending', created_at to the current second, completed_at to NULL (0); the
\* row id is lastrowid.
NewSession(org, total, now) ==
    [org_name |-> org, total_repos |-> total, processed_repos |-> 0,
     status |-> "pending", created_at |-> now, completed_at |-> 0]

\* Mutant: an UPDATE without `WHERE id = ?`.
UpdateEverySession(rows, id, processed, status) ==
    [i \in DOMAIN rows |->
        [rows[i] EXCEPT !.processed_repos = processed,
                        !.status = status,
                        !.completed_at = IF status = "completed" THEN @ + 1 ELSE @]]

\* update_analysis_session: one UPDATE of the row; completed_at is written (a
\* later CURRENT_TIMESTAMP) only with status 'completed'.
UpdateSession(rows, id, processed, status) ==
    [rows EXCEPT ![id] =
        [@ EXCEPT !.processed_repos = processed,
                  !.status = status,
                  !.completed_at = IF status = "completed" THEN @ + 1 ELSE @]]

\* Mutant: a plain INSERT into a table without the UNIQUE constraint.
StoreSbomPlainInsert(table, source_repo, content) ==
    Append(table, [source_repo |-> source_repo, json_content |-> content])

\* store_sbom: INSERT OR REPLACE on the UNIQUE source_repo: the row that holds
\* source_repo is deleted and the new row gets the next (largest) rowid.  The
\* columns id and created_at are read by no query and left out.
StoreSbom(table, source_repo, content) ==
    Append(SelectSeq(table, LAMBDA row : row.source_repo # source_repo),
           [source_repo |-> source_repo, json_content |-> content])

\* ------------------------------------------------------------- app.analyze
\* POST /analyze: get_public_repositories(org_name) starts with a listing request.
StartScan(p) ==
    /\ pc[p] = "idle"
    /\ rq' = [rq EXCEPT ![p] = [kind |-> "list", retry_count |-> 0, calls |-> 0]]
    /\ pc' = [pc EXCEPT ![p] = "http"]
    /\ UNCHANGED <<answer, env, resp, timer, repos, idx, sid, processed_count, sbom_file, flash,
                   log, analysis_progress, analysis_sessions, sbom>>

\* Mutant: the session is created before the listing is checked for public
\* repositories.
ListReturnCreatesFirst(p) ==
    /\ pc[p] = "ret"
    /\ rq[p].kind = "list"
    /\ rq' = [rq EXCEPT ![p] = NoRq]
    /\ resp' = [resp EXCEPT ![p] = None]
    /\ LET res == GetRepositoriesResult(resp[p])
           public == PublicOnly(resp[p].listing)
       IN  IF res # "ok"
           THEN /\ flash' = [flash EXCEPT ![p] = res]
                /\ pc' = [pc EXCEPT ![p] = "rejected"]
                /\ UNCHANGED <<repos, sid, analysis_sessions>>
           ELSE /\ \E now \in Timestamps(analysis_sessions) :
                        analysis_sessions' =
                            Append(analysis_sessions, NewSession(Owner, Len(public), now))
                /\ IF Len(public) = 0
                   THEN /\ flash' = [flash EXCEPT ![p] = "No public repositories found"]
                        /\ pc' = [pc EXCEPT ![p] = "rejected"]
                        /\ UNCHANGED <<repos, sid>>
                   ELSE /\ sid' = [sid EXCEPT ![p] = Len(analysis_sessions) + 1]
                        /\ repos' = [repos EXCEPT ![p] = public]
                        /\ flash' = [flash EXCEPT ![p] = "Analysis started"]
                        /\ pc' = [pc EXCEPT ![p] = "spawned"]
    /\ UNCHANGED <<answer, env, timer, idx, processed_count, sbom_file, log, analysis_progress, sbom>>

\* The listing request returned: get_repositories raises or returns the list,
\* analyze filters it, refuses an empty one, creates the session and starts the
\* thread.  Every exception ends in the flash message of line 101.
ListReturn(p) ==
    /\ pc[p] = "ret"
    /\ rq[p].kind = "list"
    /\ rq' = [rq EXCEPT ![p] = NoRq]
    /\ resp' = [resp EXCEPT ![p] = None]
    /\ LET res == GetRepositoriesResult(resp[p])
           public == PublicOnly(resp[p].listing)
       IN  IF res # "ok"
           THEN /\ flash' = [flash EXCEPT ![p] = res]
                /\ pc' = [pc EXCEPT ![p] = "rejected"]
                /\ UNCHANGED <<repos, sid, analysis_sessions>>
           ELSE IF Len(public) = 0
           THEN /\ flash' = [flash EXCEPT ![p] = "No public repositories found"]
                /\ pc' = [pc EXCEPT ![p] = "rejected"]
                /\ UNCHANGED <<repos, sid, analysis_sessions>>
           ELSE \/ /\ \E now \in Timestamps(analysis_sessions) :
                        analysis_sessions' =
                            Append(analysis_sessions, NewSession(Owner, Len(public), now))
                   /\ sid' = [sid EXCEPT ![p] = Len(analysis_sessions) + 1]
                   /\ repos' = [repos EXCEPT ![p] = public]
                   /\ flash' = [flash EXCEPT ![p] = "Analysis started"]
                   /\ pc' = [pc EXCEPT ![p] = "spawned"]
                \/ \* create_analysis_session raises (sqlite3.Error)
                   /\ env = "full"
                   /\ flash' = [flash EXCEPT ![p] = "OperationalError"]
                   /\ pc' = [pc EXCEPT ![p] = "rejected"]
                   /\ UNCHANGED <<repos, sid, analysis_sessions>>
    /\ UNCHANGED <<answer, env, timer, idx, processed_count, sbom_file, log, analysis_progress, sbom>>

\* ---------------------------------------------- app.analyze_organization
\* Lines 110-118: the progress record and the local counter.
ThreadStart(p) ==
    /\ pc[p] = "spawned"
    /\ analysis_progress' = [analysis_progress EXCEPT ![sid[p]] =
            [status |-> "processing", processed |-> 0, total |-> Len(repos[p]),
             current_repo |-> <<>>, errors |-> <<>>]]
    /\ processed_count' = [processed_count EXCEPT ![p] = 0]
    /\ pc' = [pc EXCEPT ![p] = "loop"]
    /\ UNCHANGED <<answer, env, rq, resp, timer, repos, idx, sid, sbom_file, flash, log,
                   analysis_sessions, sbom>>

\* `for repo in repos`, lines 122-129: the next repository becomes current and its
\* BOM request starts; after the last one the loop ends.
LoopNext(p) ==
    /\ pc[p] = "loop"
    /\ IF idx[p] < Len(repos[p])
       THEN /\ idx' = [idx EXCEPT ![p] = @ + 1]
            /\ analysis_progress' = [analysis_progress EXCEPT
                    ![sid[p]].current_repo = FullName(repos[p][idx[p] + 1])]
            /\ rq' = [rq EXCEPT ![p] = [kind |-> "sbom", retry_count |-> 0, calls |-> 0]]
            /\ pc' = [pc EXCEPT ![p] = "http"]
       ELSE /\ pc' = [pc EXCEPT ![p] = "mark"]
            /\ UNCHANGED <<idx, analysis_progress, rq>>
    /\ UNCHANGED <<answer, env, resp, timer, repos, sid, processed_count, sbom_file, flash, log,
                   analysis_sessions, sbom>>

CurrentRepo(p) == FullName(repos[p][idx[p]])

\* History: what happened to the current repository.
Logged(p, event) == [log EXCEPT ![p] = Append(@, [repo |-> CurrentRepo(p), event |-> event])]

\* The except clause, lines 177-183: the message is appended, the repository is
\* counted.  Line 184 (the session update) is the worker's next step.
Handler(p, exc) ==
    /\ processed_count' = [processed_count EXCEPT ![p] = @ + 1]
    /\ analysis_progress' = [analysis_progress EXCEPT
            ![sid[p]].errors = Append(@, [repo |-> CurrentRepo(p), exc |-> exc]),
            ![sid[p]].processed = processed_count[p] + 1]
    /\ pc' = [pc EXCEPT ![p] = "persist_exc"]

\* fetch_sbom's part after _make_request, back in the loop body at line 131.
FetchReturn(p) ==
    /\ pc[p] = "ret"
    /\ rq[p].kind = "sbom"
    /\ rq' = [rq EXCEPT ![p] = NoRq]
    /\ \E ioOk \in (IF env = "full" THEN BOOLEAN ELSE {TRUE}) :
         LET res == FetchSbomResult(resp[p], ioOk)
         IN  \* the file is only written on a parsed 200
             /\ (~ioOk => resp[p].status = 200 /\ resp[p].jsonOk)
             /\ IF res = "file"
                THEN /\ sbom_file' = [sbom_file EXCEPT ![p] = resp[p].doc]
                     /\ resp' = [resp EXCEPT ![p] = None]
                     /\ pc' = [pc EXCEPT ![p] = "have_file"]
                     /\ UNCHANGED <<processed_count, analysis_progress, log>>
                ELSE IF res = "absent"
                THEN \* `response` is last read by the branch that returns None
                     /\ pc' = [pc EXCEPT ![p] = "absent"]
                     /\ log' = Logged(p, "absent")
                     /\ UNCHANGED <<processed_count, analysis_progress, sbom_file, resp>>
                ELSE /\ Handler(p, res)
                     /\ resp' = [resp EXCEPT ![p] = None]
                     /\ log' = Logged(p, "fetch_raised")
                     /\ UNCHANGED sbom_file
    /\ UNCHANGED <<answer, env, timer, repos, idx, sid, flash, analysis_sessions, sbom>>

\* Lines 133-135: the saved file is read back and stored.  open/json.load may
\* raise; store_sbom catches its own failure and returns False (ignored).
LoadStore(p) ==
    /\ pc[p] = "have_file"
    /\ sbom_file' = [sbom_file EXCEPT ![p] = NoDoc]
    /\ \/ /\ sbom' = StoreSbom(sbom, CurrentRepo(p), sbom_file[p])
          /\ log' = Logged(p, "stored")
          /\ pc' = [pc EXCEPT ![p] = "count"]
          /\ UNCHANGED <<processed_count, analysis_progress>>
       \/ /\ log' = Logged(p, "store_failed")
          /\ pc' = [pc EXCEPT ![p] = "count"]
          /\ UNCHANGED <<processed_count, analysis_progress, sbom>>
       \/ /\ env = "full"
          /\ Handler(p, "OSError")
          /\ log' = Logged(p, "load_raised")
          /\ UNCHANGED sbom
    /\ UNCHANGED <<answer, env, rq, resp, timer, repos, idx, sid, flash, analysis_sessions>>

\* Mutant: only a stored BOM is counted; an absent one goes on uncounted.
CountOnlyStored(p) ==
    /\ pc[p] \in {"count", "absent"}
    /\ processed_count' = [processed_count EXCEPT ![p] = IF pc[p] = "count" THEN @ + 1 ELSE @]
    /\ analysis_progress' = [analysis_progress EXCEPT
            ![sid[p]].processed = processed_count'[p]]
    /\ resp' = [resp EXCEPT ![p] = None]
    /\ pc' = [pc EXCEPT ![p] = "persist"]
    /\ UNCHANGED <<answer, env, rq, timer, repos, idx, sid, sbom_file, flash, log,
                   analysis_sessions, sbom>>

\* Lines 137-138 and 144-145: the repository is counted.
Count(p) ==
    /\ pc[p] \in {"count", "absent"}
    /\ processed_count' = [processed_count EXCEPT ![p] = @ + 1]
    /\ analysis_progress' = [analysis_progress EXCEPT
            ![sid[p]].processed = processed_count[p] + 1]
    /\ resp' = [resp EXCEPT ![p] = None]
    /\ pc' = [pc EXCEPT ![p] = "persist"]
    /\ UNCHANGED <<answer, env, rq, timer, repos, idx, sid, sbom_file, flash, log,
                   analysis_sessions, sbom>>

\* Lines 141 and 148: the session row is updated, or sqlite raises into the
\* except clause of line 176.
Persist(p) ==
    /\ pc[p] = "persist"
    /\ \/ /\ analysis_sessions' =
                UpdateSession(analysis_sessions, sid[p], processed_count[p], "processing")
          /\ pc' = [pc EXCEPT ![p] = "pace"]
          /\ UNCHANGED <<processed_count, analysis_progress, log>>
       \/ /\ env = "full"
          /\ Handler(p, "OperationalError")
          /\ log' = Logged(p, "update_raised")
          /\ UNCHANGED analysis_sessions
    /\ UNCHANGED <<answer, env, rq, resp, timer, repos, idx, sid, sbom_file, flash, sbom>>

\* A quota poll starts: get_rate_limit_info calls _make_request.
Poll(p, kind) ==
    /\ rq' = [rq EXCEPT ![p] = [kind |-> kind, retry_count |-> 0, calls |-> 0]]
    /\ pc' = [pc EXCEPT ![p] = "http"]
    /\ log' = Logged(p, "poll")

\* The delay slept before the loop takes its next turn (tenths of a second are
\* not counted by the timer: the sleep is recorded).
Sleep(p, l, seconds) ==
    /\ log' = [l EXCEPT ![p] = Append(@, [repo |-> CurrentRepo(p), event |-> seconds])]
    /\ pc' = [pc EXCEPT ![p] = "loop"]

\* Lines 150-174 after the session update: the monitoring poll when
\* processed_count is a multiple of 20, else the pacing poll when it is a
\* multiple of 5, else time.sleep(0.1).
Pace(p) ==
    /\ pc[p] = "pace"
    /\ IF processed_count[p] % MonitorEvery = 0
       THEN Poll(p, "monitor")
       ELSE IF processed_count[p] % PaceEvery = 0
       THEN Poll(p, "pacing")
       ELSE Sleep(p, log, "sleep 0.1") /\ UNCHANGED rq
    /\ UNCHANGED <<answer, env, resp, timer, repos, idx, sid, processed_count, sbom_file,
                   flash, analysis_progress, analysis_sessions, sbom>>

\* What a poll gave its caller, for the record.
PollOutcome(info) ==
    IF info = "JSONDecodeError" THEN "poll_raised"
    ELSE IF info = Unknown THEN "poll_unknown"
    ELSE "poll_remaining"

\* Lines 153-158: the monitoring poll returned; the warning is printed when
\* int(remaining) <= 10, every exception is caught (line 157).  A multiple of
\* 20 is a multiple of 5: line 163 polls again.
MonitorReturn(p) ==
    /\ pc[p] = "ret"
    /\ rq[p].kind = "monitor"
    /\ resp' = [resp EXCEPT ![p] = None]
    /\ LET info == GetRateLimitInfo(resp[p])
           warned == IF ~ValueError(info) /\ IntOf(info) <= WarnQuota
                     THEN <<[repo |-> CurrentRepo(p), event |-> "low_quota_warning"]>>
                     ELSE <<>>
       IN  log' = [log EXCEPT ![p] =
                    @ \o <<[repo |-> CurrentRepo(p), event |-> PollOutcome(info)]>>
                      \o warned
                      \o <<[repo |-> CurrentRepo(p), event |-> "poll"]>>]
    /\ rq' = [rq EXCEPT ![p] = [kind |-> "pacing", retry_count |-> 0, calls |-> 0]]
    /\ pc' = [pc EXCEPT ![p] = "http"]
    /\ UNCHANGED <<answer, env, timer, repos, idx, sid, processed_count, sbom_file,
                   flash, analysis_progress, analysis_sessions, sbom>>

\* Lines 163-172: the pacing poll returned; time.sleep(2.0) when
\* int(remaining) <= 20, time.sleep(0.5) otherwise and on every exception.
PacingReturn(p) ==
    /\ pc[p] = "ret"
    /\ rq[p].kind = "pacing"
    /\ rq' = [rq EXCEPT ![p] = NoRq]
    /\ resp' = [resp EXCEPT ![p] = None]
    /\ LET info == GetRateLimitInfo(resp[p])
       IN  Sleep(p, Logged(p, PollOutcome(info)),
                 IF ~ValueError(info) /\ IntOf(info) <= LowQuota THEN "sleep 2.0" ELSE "sleep 0.5")
    /\ UNCHANGED <<answer, env, timer, repos, idx, sid, processed_count, sbom_file,
                   flash, analysis_progress, analysis_sessions, sbom>>

\* Mutant: the except clause closes the session ('completed') and the loop goes on.
PersistExcCompletes(p) ==
    /\ pc[p] = "persist_exc"
    /\ analysis_sessions' =
            UpdateSession(analysis_sessions, sid[p], processed_count[p], "completed")
    /\ pc' = [pc EXCEPT ![p] = "loop"]
    /\ UNCHANGED <<answer, env, rq, resp, timer, repos, idx, sid, processed_count, sbom_file,
                   flash, log, analysis_progress, sbom>>

\* Line 184: the session update of the except clause.  If it raises, nothing
\* catches it and the thread ends.
PersistExc(p) ==
    /\ pc[p] = "persist_exc"
    /\ \/ /\ analysis_sessions' =
                UpdateSession(analysis_sessions, sid[p], processed_count[p], "processing")
          /\ pc' = [pc EXCEPT ![p] = "loop"]
          /\ UNCHANGED log
       \/ /\ env = "full"
          /\ pc' = [pc EXCEPT ![p] = "dead"]
          /\ log' = Logged(p, "update_raised")
          /\ UNCHANGED analysis_sessions
    /\ UNCHANGED <<answer, env, rq, resp, timer, repos, idx, sid, processed_count, sbom_file,
                   flash, analysis_progress, sbom>>

\* Line 187.
Mark(p) ==
    /\ pc[p] = "mark"
    /\ analysis_progress' = [analysis_progress EXCEPT ![sid[p]].status = "completed"]
    /\ pc' = [pc EXCEPT ![p] = "complete"]
    /\ UNCHANGED <<answer, env, rq, resp, timer, repos, idx, sid, processed_count, sbom_file,
                   flash, log, analysis_sessions, sbom>>

\* Line 188: the last statement of the thread.
Complete(p) ==
    /\ pc[p] = "complete"
    /\ \/ /\ analysis_sessions' =
                UpdateSession(analysis_sessions, sid[p], processed_count[p], "completed")
          /\ pc' = [pc EXCEPT ![p] = "done"]
          /\ UNCHANGED log
       \/ /\ env = "full"
          /\ pc' = [pc EXCEPT ![p] = "dead"]
          /\ log' = Logged(p, "update_raised")
          /\ UNCHANGED analysis_sessions
    /\ UNCHANGED <<answer, env, rq, resp, timer, repos, idx, sid, processed_count, sbom_file,
                   flash, analysis_progress, sbom>>

Step(p) ==
    \/ StartScan(p)
    \/ HttpCall(p)
    \/ Wake(p)
    \/ ListReturn(p)
    \/ ThreadStart(p)
    \/ LoopNext(p)
    \/ FetchReturn(p)
    \/ LoadStore(p)
    \/ Count(p)
    \/ Persist(p)
    \/ Pace(p)
    \/ MonitorReturn(p)
    \/ PacingReturn(p)
    \/ PersistExc(p)
    \/ Mark(p)
    \/ Complete(p)

Next == Tick \/ \E p \in Workers : Step(p)

Spec == Init /\ [][Next]_vars

\* ============================================================ SBOMProcessor
\* The queries of utils/sbom_processor.py, as SQLite evaluates them.

\* json_each(json(sbom.json_content), '$.sbom.packages'): one row per element of
\* an array (per member of an object), one row holding the value itself for a
\* string, no row when the path is not there.
JsonEach(doc) ==
    IF doc.shape \in {"array", "object"} THEN doc.packages
    ELSE IF doc.shape = "string" THEN <<StringElement>>
    ELSE <<>>

\* `FROM sbom, json_each(...)`: the rows of the join, table row by table row.
RECURSIVE JoinFrom(_, _)
JoinFrom(table, i) ==
    IF i > Len(table) THEN <<>>
    ELSE LET each == JsonEach(table[i].json_content)
         IN  [j \in 1..Len(each) |->
                 [source_repo |-> table[i].source_repo, value |-> each[j]]]
             \o JoinFrom(table, i + 1)
Joined(table) == JoinFrom(table, 1)

\* json_extract(value, '$.<field>') reads the text of a string value as JSON and
\* fails with "malformed JSON" when it is none; of an object it returns the
\* field, NULL when the object has none.
Malformed == <<"malformed JSON">>
JsonExtract(value, field) ==
    IF value.type = "string" THEN Malformed ELSE value[field]

\* The statement raises sqlite3.OperationalError (execute_query lets it through)
\* when json_extract fails on a row it evaluates.
Raises(rows) ==
    \E i \in 1..Len(rows) : JsonExtract(rows[i].value, "SPDXID") = Malformed

\* Mutant: LIKE that compares letters as they are.
FoldNothing(c) == c

\* SQLite's LIKE folds the case of ASCII letters (the upper-case letters that
\* occur in the identities here).
Fold(c) ==
    CASE c = "A" -> "a"
      [] c = "G" -> "g"
      [] c = "H" -> "h"
      [] OTHER -> c

\* The text between the % signs of line 22.
ActionPattern == <<"g", "i", "t", "h", "u", "b", "a", "c", "t", "i", "o", "n">>

\* text LIKE '%pattern%'
Like(text, pattern) ==
    \E i \in 0..(Len(text) - Len(pattern)) :
        \A j \in 1..Len(pattern) : Fold(text[i + j]) = Fold(pattern[j])

Min(a, b) == IF a < b THEN a ELSE b

\* ORDER BY occurrence_count DESC: f lists the groups by falling count; the
\* order of groups with equal counts is up to SQLite.
InCountOrder(f, count) ==
    \A i \in DOMAIN f : \A j \in DOMAIN f : i < j => count[f[i]] >= count[f[j]]

\* get_top_dependencies(limit): every result the statement of lines 13-28 may
\* give, or the exception.
GetTopDependencies(table, limit) ==
    LET rows == Joined(table)
        kept == SelectSeq(rows, LAMBDA row :
                    /\ JsonExtract(row.value, "SPDXID") # Null
                    /\ ~Like(JsonExtract(row.value, "SPDXID"), ActionPattern))
        groups == {JsonExtract(kept[i].value, "SPDXID") : i \in 1..Len(kept)}
        count == [g \in groups |->
                    Cardinality({i \in 1..Len(kept) : JsonExtract(kept[i].value, "SPDXID") = g})]
        orders == {f \in [1..Cardinality(groups) -> groups] :
                    /\ \A i \in DOMAIN f : \A j \in DOMAIN f : f[i] = f[j] => i = j
                    /\ InCountOrder(f, count)}
    IN  IF Raises(rows) THEN {[error |-> TRUE, rows |-> <<>>]}
        ELSE {[error |-> FALSE,
               rows |-> [i \in 1..Min(limit, Cardinality(groups)) |->
                            [package_name |-> f[i], occurrence_count |-> count[f[i]]]]]
              : f \in orders}

\* The rows both statements of get_dependency_stats count: WHERE
\* json_extract(...) IS NOT NULL.
Identified(table) ==
    SelectSeq(Joined(table), LAMBDA row : JsonExtract(row.value, "SPDXID") # Null)
\* Lines 36-40: COUNT(DISTINCT ...).
UniqueDeps(table) ==
    LET rows == Identified(table)
    IN  Cardinality({JsonExtract(rows[i].value, "SPDXID") : i \in 1..Len(rows)})
\* Lines 43-47: COUNT(*).
TotalOccurrences(table) == Len(Identified(table))
\* get_sbom_count: SELECT COUNT(*) FROM sbom.
GetSbomCount(table) == Len(table)

\* get_dependencies_by_repo(repo_name), lines 60-85: only the join rows of the
\* table row with that source_repo are evaluated, in document order.
GetDependenciesByRepo(table, repo_name) ==
    LET rows == SelectSeq(Joined(table), LAMBDA row : row.source_repo = repo_name)
        kept == SelectSeq(rows, LAMBDA row : JsonExtract(row.value, "SPDXID") # Null)
    IN  [error |-> Raises(rows),
         rows |-> IF Raises(rows) THEN <<>>
                  ELSE [i \in 1..Len(kept) |->
                         [package_name |-> JsonExtract(kept[i].value, "SPDXID"),
                          name |-> JsonExtract(kept[i].value, "name"),
                          version |-> JsonExtract(kept[i].value, "versionInfo"),
                          license |-> JsonExtract(kept[i].value, "licenseConcluded")]]]

\* source_repo values compare as text; with one owner the name decides.
KeyBefore(a, b) == a[1] = b[1] /\ a[2] < b[2]

\* Mutant: the rows come in rowid order (no ORDER BY).
RepositoriesInRowidOrder(table) == [i \in 1..Len(table) |-> table[i].source_repo]

\* get_repositories_with_sbom: SELECT source_repo FROM sbom ORDER BY source_repo.
GetRepositoriesWithSbom(table) ==
    CHOOSE f \in [1..Len(table) -> {table[i].source_repo : i \in 1..Len(table)}] :
        /\ \A i \in 1..Len(table) : \E j \in 1..Len(table) : f[j] = table[i].source_repo
        /\ \A i \in 1..Len(table) : \A j \in 1..Len(table) :
                i < j => (f[i] = f[j] \/ KeyBefore(f[i], f[j]))

\* -------------------------------------------- the store and its query clients
\* The repositories whose documents the queried store may hold.
StoreKeys == {FullName(PublicRepo(i)) : i \in 1..MaxStored}

Answer(op, key, limit, error, rows) ==
    [op |-> op, key |-> key, limit |-> limit, error |-> error, rows |-> rows]
\* get_dependency_stats between its statements (lines 49, 50 and 55).
StatsInProgress == {"unique_deps_query", "total_occurrences_query"}
Stats(unique, total, count) ==
    <<[unique_dependencies |-> unique, total_occurrences |-> total, sbom_count |-> count]>>

StoreFrame == <<env, pc, rq, resp, timer, repos, idx, sid, processed_count, sbom_file,
                flash, log, analysis_progress, analysis_sessions>>

\* A process that only serves the result pages: no scan is started, scan
\* threads appear as the puts they make.
InitStore ==
    /\ env = "store"
    /\ pc = [p \in Workers |-> "off"]
    /\ rq = [p \in Workers |-> NoRq]
    /\ resp = [p \in Workers |-> None]
    /\ timer = [p \in Workers |-> NoTimer]
    /\ repos = [p \in Workers |-> <<>>]
    /\ idx = [p \in Workers |-> 0]
    /\ sid = [p \in Workers |-> 0]
    /\ processed_count = [p \in Workers |-> 0]
    /\ sbom_file = [p \in Workers |-> NoDoc]
    /\ flash = [p \in Workers |-> "none"]
    /\ log = [p \in Workers |-> <<>>]
    /\ analysis_progress = [s \in SessionIds |-> NoProgress]
    /\ analysis_sessions = <<>>
    /\ sbom = <<>>
    /\ answer = NoAnswer

\* A scan thread stores a document (app.py:135).  An answer already given is
\* history once the store changes; a get_dependency_stats under way goes on.
PutSbom ==
    /\ \E k \in StoreKeys, d \in StoredDocs : sbom' = StoreSbom(sbom, k, d)
    /\ answer' = IF answer.op \in StatsInProgress THEN answer ELSE NoAnswer
    /\ UNCHANGED StoreFrame

\* /results, /export/csv, /export/html: get_top_dependencies(limit).
TopDependencies ==
    /\ answer.op \notin StatsInProgress
    /\ \E limit \in 0..MaxLimit : \E r \in GetTopDependencies(sbom, limit) :
            answer' = Answer("get_top_dependencies", NoKey, limit, r.error, r.rows)
    /\ UNCHANGED <<sbom, StoreFrame>>

\* get_dependency_stats, line 49: the first statement, on its own connection.
StatsUnique ==
    /\ answer.op \notin StatsInProgress
    /\ answer' = IF Raises(Joined(sbom))
                 THEN Answer("get_dependency_stats", NoKey, 0, TRUE, <<>>)
                 ELSE Answer("unique_deps_query", NoKey, 0, FALSE,
                             Stats(UniqueDeps(sbom), 0, 0))
    /\ UNCHANGED <<sbom, StoreFrame>>

\* Line 50: the second statement.
StatsTotal ==
    /\ answer.op = "unique_deps_query"
    /\ answer' = IF Raises(Joined(sbom))
                 THEN Answer("get_dependency_stats", NoKey, 0, TRUE, <<>>)
                 ELSE Answer("total_occurrences_query", NoKey, 0, FALSE,
                             Stats(answer.rows[1].unique_dependencies,
                                   TotalOccurrences(sbom), 0))
    /\ UNCHANGED <<sbom, StoreFrame>>

\* Lines 52-56: get_sbom_count and the return.
StatsCount ==
    /\ answer.op = "total_occurrences_query"
    /\ answer' = Answer("get_dependency_stats", NoKey, 0, FALSE,
                        Stats(answer.rows[1].unique_dependencies,
                              answer.rows[1].total_occurrences, GetSbomCount(sbom)))
    /\ UNCHANGED <<sbom, StoreFrame>>

\* /repo/<repo_name>: get_dependencies_by_repo(repo_name).
DependenciesByRepo ==
    /\ answer.op \notin StatsInProgress
    /\ \E k \in StoreKeys \cup {FullName(PrivateRepo)} :
         LET r == GetDependenciesByRepo(sbom, k)
         IN  answer' = Answer("get_dependencies_by_repo", k, 0, r.error, r.rows)
    /\ UNCHANGED <<sbom, StoreFrame>>

\* /results: get_repositories_with_sbom().
RepositoriesWithSbom ==
    /\ answer.op \notin StatsInProgress
    /\ answer' = Answer("get_repositories_with_sbom", NoKey, 0, FALSE,
                        GetRepositoriesWithSbom(sbom))
    /\ UNCHANGED <<sbom, StoreFrame>>

NextStore ==
    \/ PutSbom
    \/ TopDependencies
    \/ StatsUnique
    \/ StatsTotal
    \/ StatsCount
    \/ DependenciesByRepo
    \/ RepositoriesWithSbom

SpecStore == InitStore /\ [][NextStore]_vars

\* ======================================================== the session list
\* get_analysis_sessions(limit), lines 109-112: ORDER BY created_at DESC LIMIT ?.
\* f lists row ids by falling created_at; the order of rows stamped with the
\* same second is up to SQLite (which returns them by rising id).
InCreatedOrder(f, rows) ==
    \A i \in DOMAIN f : \A j \in DOMAIN f :
        i < j => rows[f[i]].created_at >= rows[f[j]].created_at

\* One dict of the list returned (lines 115-124).
SessionDict(rows, id) ==
    [id |-> id, org_name |-> rows[id].org_name, total_repos |-> rows[id].total_repos,
     processed_repos |-> rows[id].processed_repos, status |-> rows[id].status,
     created_at |-> rows[id].created_at, completed_at |-> rows[id].completed_at]

\* Every list the statement may give.
GetAnalysisSessions(rows, limit) ==
    LET ids == 1..Len(rows)
        orders == {f \in [ids -> ids] :
                    /\ \A i \in ids : \A j \in ids : f[i] = f[j] => i = j
                    /\ InCreatedOrder(f, rows)}
    IN  {[i \in 1..Min(limit, Len(rows)) |-> SessionDict(rows, f[i])] : f \in orders}

\* A process whose scans appear as the session rows they create and update.
InitSessions ==
    /\ env = "sessions"
    /\ pc = [p \in Workers |-> "off"]
    /\ rq = [p \in Workers |-> NoRq]
    /\ resp = [p \in Workers |-> None]
    /\ timer = [p \in Workers |-> NoTimer]
    /\ repos = [p \in Workers |-> <<>>]
    /\ idx = [p \in Workers |-> 0]
    /\ sid = [p \in Workers |-> 0]
    /\ processed_count = [p \in Workers |-> 0]
    /\ sbom_file = [p \in Workers |-> NoDoc]
    /\ flash = [p \in Workers |-> "none"]
    /\ log = [p \in Workers |-> <<>>]
    /\ analysis_progress = [s \in SessionIds |-> NoProgress]
    /\ analysis_sessions = <<>>
    /\ sbom = <<>>
    /\ answer = NoAnswer

SessionFrame == <<env, pc, rq, resp, timer, repos, idx, sid, processed_count, sbom_file,
                  flash, log, analysis_progress, sbom>>

\* app.py:90: a start-scan request creates its session (of an organization
\* with one public repository: the list does not depend on the counts).
CreateSession ==
    /\ Len(analysis_sessions) < MaxSessions
    /\ \E now \in Timestamps(analysis_sessions) :
            analysis_sessions' = Append(analysis_sessions, NewSession(Owner, 1, now))
    /\ answer' = NoAnswer
    /\ UNCHANGED SessionFrame

\* app.py:141, 148, 184: a scan counts one more repository of its session.
AdvanceSession ==
    /\ \E id \in 1..Len(analysis_sessions) :
        /\ analysis_sessions[id].status # "completed"
        /\ analysis_sessions[id].processed_repos < analysis_sessions[id].total_repos
        /\ analysis_sessions' =
                UpdateSession(analysis_sessions, id,
                              analysis_sessions[id].processed_repos + 1, "processing")
    /\ answer' = NoAnswer
    /\ UNCHANGED SessionFrame

\* app.py:188: a scan closes its session.
CompleteSession ==
    /\ \E id \in 1..Len(analysis_sessions) :
        /\ analysis_sessions[id].status # "completed"
        /\ analysis_sessions[id].processed_repos = analysis_sessions[id].total_repos
        /\ analysis_sessions' =
                UpdateSession(analysis_sessions, id,
                              analysis_sessions[id].processed_repos, "completed")
    /\ answer' = NoAnswer
    /\ UNCHANGED SessionFrame

\* The dashboard (app.py:26): get_analysis_sessions(limit).
AnalysisSessions ==
    /\ \E limit \in 0..MaxLimit : \E rows \in GetAnalysisSessions(analysis_sessions, limit) :
            answer' = Answer("get_analysis_sessions", NoKey, limit, FALSE, rows)
    /\ UNCHANGED <<analysis_sessions, SessionFrame>>

NextSessions ==
    \/ CreateSession
    \/ AdvanceSession
    \/ CompleteSession
    \/ AnalysisSessions

SpecSessions == InitSessions /\ [][NextSessions]_vars

\* ================================================================= claims
SessionRows == 1..Len(analysis_sessions)
\* The workers whose session was created (a scan exists).
Scans == {p \in Workers : sid[p] # 0}
Row(p) == analysis_sessions[sid[p]]
Progress(p) == analysis_progress[sid[p]]

\* C1: for every session the persisted processed_repos never exceeds total_repos
\* and never decreases from one state to the next, so that api_progress, which
\* returns the row's processed_repos, never returns less than it did before.
C1_ProcessedBounded ==
    \A i \in SessionRows :
        analysis_sessions[i].processed_repos <= analysis_sessions[i].total_repos
C1_ProcessedMonotoneBounded ==
    /\ []C1_ProcessedBounded
    /\ [][\A i \in SessionRows :
            analysis_sessions'[i].processed_repos >= analysis_sessions[i].processed_repos]_vars

\* C2: every repository taken by the loop adds exactly one to the processed
\* count whatever happens in its iteration: between iterations the count equals
\* the number of repositories taken, and a completed session has
\* processed_repos = total_repos.
C2_CountedExactlyOnce ==
    \A p \in Scans :
        /\ pc[p] \in {"loop", "mark", "complete", "done"} => processed_count[p] = idx[p]
        /\ Row(p).status = "completed" => Row(p).processed_repos = Row(p).total_repos

\* C3: from one state to the next a session row keeps its status or moves one
\* step along pending -> processing -> completed, and a row whose completed_at
\* is set is never written again.
StatusRank(status) ==
    CASE status = "pending" -> 0 [] status = "processing" -> 1 [] status = "completed" -> 2
C3_StatusForwardOnly ==
    [][\A i \in SessionRows :
        LET old == analysis_sessions[i]
            new == analysis_sessions'[i]
        IN  /\ StatusRank(new.status) \in {StatusRank(old.status), StatusRank(old.status) + 1}
            /\ old.completed_at # 0 => new = old]_vars
\* One scan has completed while the other scan still writes its session.
C3_Witness ==
    \E p \in Scans, q \in Scans :
        /\ p # q
        /\ Row(p).status = "completed" /\ Row(p).completed_at = 1
        /\ Row(q).status = "processing"

\* C4: a scan whose session exists is never stuck short of completed: its
\* session is completed, or it sleeps, or its worker can take a step; and no
\* session has a status other than pending, processing, completed.
C4_ScanReachesCompleted ==
    /\ \A p \in Scans :
        Row(p).status = "completed" \/ timer[p].sleep > 0 \/ ENABLED Step(p)
    /\ \A i \in SessionRows :
        analysis_sessions[i].status \in {"pending", "processing", "completed"}

\* C5: the final state of a scan that ran alone on an empty store.
StoredKeys(table) == {table[i].source_repo : i \in 1..Len(table)}
Events(p) == {log[p][i].event : i \in 1..Len(log[p])}
\* What can go wrong with a repository after its request has returned.
Failures == {"fetch_raised", "store_failed", "load_raised", "update_raised"}
Alone(p) == \A q \in Workers \ {p} : log[q] = <<>>
ListedKeys(p) == {FullName(repos[p][i]) : i \in 1..Len(repos[p])}
\* The repositories whose fetch_sbom returned a file.
FetchedOk(p) ==
    {log[p][i].repo : i \in {j \in 1..Len(log[p]) :
        log[p][j].event \in {"stored", "store_failed", "load_raised"}}}
FinalStateAsClaimed(p) ==
    /\ pc[p] = "done"
    /\ Row(p).status = "completed"
    /\ Row(p).processed_repos = Len(repos[p])
    /\ Progress(p).errors = <<>>
    /\ StoredKeys(sbom) = FetchedOk(p)
    /\ Len(sbom) = Cardinality(FetchedOk(p))
\* C5 as stated: every fetch succeeded or was absent, the thread has returned.
C5_Original ==
    \A p \in Scans :
        (/\ pc[p] = "done"
         /\ Alone(p)
         /\ "fetch_raised" \notin Events(p))
        => FinalStateAsClaimed(p)
\* The same for the scans in which every fetched file was read back and stored
\* and no session update raised: the thread has returned with that final state.
C5_CleanScanFinalState ==
    \A p \in Scans :
        (/\ pc[p] \in {"done", "dead"}
         /\ Alone(p)
         /\ Events(p) \cap Failures = {})
        => FinalStateAsClaimed(p)
\* The example of the claim's source: 2 repositories, one stored, one absent.
C5_Witness ==
    \E p \in Scans :
        /\ pc[p] = "done" /\ Alone(p) /\ Len(repos[p]) = 2
        /\ {"stored", "absent"} \subseteq Events(p) /\ Events(p) \cap Failures = {}
        /\ Len(sbom) = 1

\* C6: a BOM response with any status other than 200 makes fetch_sbom return
\* None without raising: the worker goes to the "absent" branch, nothing is
\* stored, nothing is appended to the error list, and the repository is then
\* counted like any other (the batch goes on).
ErrorsOf(progress, p) == progress[sid[p]].errors
C6_AbsentNotError ==
    [][\A p \in Workers :
        /\ (/\ pc[p] = "ret" /\ rq[p].kind = "sbom"
            /\ resp[p] # None /\ resp[p].status # 200
            /\ pc'[p] # pc[p])
           => /\ pc'[p] = "absent"
              /\ sbom' = sbom
              /\ processed_count'[p] = processed_count[p]
              /\ ErrorsOf(analysis_progress', p) = ErrorsOf(analysis_progress, p)
        /\ (pc[p] = "absent" /\ pc'[p] # pc[p])
           => /\ pc'[p] = "persist"
              /\ sbom' = sbom
              /\ processed_count'[p] = processed_count[p] + 1
              /\ ErrorsOf(analysis_progress', p) = ErrorsOf(analysis_progress, p)]_vars
\* fetch_sbom has returned None for a 401 on the second repository of a scan.
C6_Witness ==
    \E p \in Scans :
        /\ pc[p] = "absent" /\ resp[p].status = 401
        /\ idx[p] = 2 /\ Progress(p).errors = <<>>

\* C7: one logical request makes at most 4 HTTP calls (3 re-issues); a call
\* after the first is made only out of the rate-limit wait, the wait is entered
\* only on a 403 with remaining 0 and a reset time in the future, and every
\* other outcome of a call (any other response, a network exception) ends the
\* request.
QuotaExhausted(r) ==
    r.status = 403 /\ r.remaining = "0" /\ r.hasReset /\ r.wait > 0
C7_BoundedRetries ==
    /\ [](\A p \in Workers : rq[p].calls <= 4 /\ rq[p].calls <= rq[p].retry_count + 1)
    /\ [][\A p \in Workers :
            /\ (pc'[p] = "http" /\ pc[p] # "http" /\ rq'[p].calls >= 1) => pc[p] = "sleep"
            /\ (pc[p] = "http" /\ pc'[p] # "http")
               => /\ pc'[p] \in {"sleep", "ret"}
                  /\ pc'[p] = "sleep" <=> QuotaExhausted(resp'[p])
                  /\ pc'[p] = "ret" => rq'[p].retry_count = rq[p].retry_count]_vars
\* The request has been given up after its fourth call.
C7_Witness ==
    \E p \in Workers : pc[p] = "ret" /\ rq[p].calls = 4 /\ resp[p] = None

\* C8 as stated: on a 403 with remaining 0 and a reset time in the future the
\* client sleeps until the reset time plus 2 seconds has passed and then
\* re-issues the same request.
BlocksOnExhaustion(p) ==
    (pc[p] = "http" /\ pc'[p] # "http" /\ QuotaExhausted(resp'[p]))
        => /\ pc'[p] = "sleep"
           /\ timer'[p].sleep >= resp'[p].wait + 2
SameRequestReissued(p) ==
    /\ pc'[p] = "http"
    /\ rq'[p].kind = rq[p].kind
    /\ idx'[p] = idx[p]
    /\ rq'[p].calls = rq[p].calls
C8_Original ==
    [][\A p \in Workers :
        /\ BlocksOnExhaustion(p)
        /\ (pc[p] = "sleep" /\ pc'[p] # "sleep")
           => /\ timer[p].reset <= -2
              /\ SameRequestReissued(p)]_vars
\* C8 amended: ... re-issues it if fewer than 3 retries were made, and returns
\* None to the caller after the wait otherwise.
C8_BlocksThenRetriesUpTo3 ==
    [][\A p \in Workers :
        /\ BlocksOnExhaustion(p)
        /\ (pc[p] = "sleep" /\ pc'[p] # "sleep")
           => /\ timer[p].reset <= -2
              /\ IF rq[p].retry_count < 3
                 THEN SameRequestReissued(p)
                 ELSE pc'[p] = "ret" /\ resp'[p] = None]_vars
\* A BOM request is about to be re-issued after its first wait.
C8_Witness ==
    \E p \in Scans :
        pc[p] = "http" /\ rq[p].kind = "sbom" /\ rq[p].retry_count = 1 /\ rq[p].calls = 1

\* C9: a 403 with remaining 0 and no reset time in the future ends the request
\* at once (no wait, no retry); fetch_sbom then returns None, and
\* get_repositories raises the access-denied error.
NoUsableReset(r) ==
    r.status = 403 /\ r.remaining = "0" /\ (~r.hasReset \/ r.wait <= 0)
C9_NoResetIsTerminal ==
    [][\A p \in Workers :
        /\ (pc[p] = "http" /\ pc'[p] # "http" /\ NoUsableReset(resp'[p]))
           => pc'[p] = "ret" /\ timer'[p] = NoTimer
        /\ (pc[p] = "ret" /\ NoUsableReset(resp[p]) /\ pc'[p] # pc[p])
           => /\ rq[p].kind = "sbom" => pc'[p] = "absent"
              /\ rq[p].kind = "list"
                 => pc'[p] = "rejected" /\ flash'[p] = "Access denied"]_vars

\* C10: while the BOM request of a repository is in flight (a call pending,
\* or the rate-limit sleep), no step changes the scan's local counter, its
\* in-memory processed count or its persisted processed_repos.
InFlight(p) == rq[p].kind = "sbom" /\ pc[p] \in {"http", "sleep"}
C10_NoCountWhileFetching ==
    [][\A p \in Scans :
        InFlight(p)
        => /\ processed_count'[p] = processed_count[p]
           /\ analysis_progress'[sid[p]].processed = analysis_progress[sid[p]].processed
           /\ analysis_sessions'[sid[p]].processed_repos
                = analysis_sessions[sid[p]].processed_repos]_vars
\* The second repository's request sleeps again after one retry; one is counted.
C10_Witness ==
    \E p \in Scans :
        /\ InFlight(p) /\ pc[p] = "sleep" /\ rq[p].retry_count >= 1
        /\ idx[p] = 2 /\ Row(p).processed_repos = 1 /\ Progress(p).processed = 1

\* C11: when the listing request of a start-scan request fails (no response,
\* organization not found, access denied, any other error status, a body that
\* does not parse) or lists no public repository, the request is rejected: no
\* session row is created, the session table, the progress records and the
\* document store are unchanged, and the rejected request never starts a scan
\* thread (it has no session and takes no further step).
ListingFails(r) ==
    \/ r = None
    \/ r.status # 200
    \/ ~r.jsonOk
    \/ \A i \in 1..Len(r.listing) : r.listing[i].visibility # "public"
C11_FailedListingCreatesNothing ==
    /\ [](\A p \in Workers :
            pc[p] = "rejected" => sid[p] = 0 /\ repos[p] = <<>> /\ ~ENABLED Step(p))
    /\ [][\A p \in Workers :
            (/\ pc[p] = "ret" /\ rq[p].kind = "list"
             /\ ListingFails(resp[p])
             /\ pc'[p] # pc[p])
            => /\ pc'[p] = "rejected"
               /\ analysis_sessions' = analysis_sessions
               /\ analysis_progress' = analysis_progress
               /\ sbom' = sbom]_vars
\* A request was rejected while the other request's scan has a session and a
\* stored document.
C11_Witness ==
    \E p \in Workers, q \in Scans :
        /\ pc[p] = "rejected" /\ flash[p] = "Failed to fetch repositories"
        /\ Len(analysis_sessions) = 1
        /\ sbom # <<>>

\* C12: the store never holds two rows for one repository key; a successful
\* put of document d for key k leaves exactly one row for k, holding d, and the
\* rows of every other key as they were (also when the puts of two scans
\* interleave); and no step that is not a successful put changes the store.
\* Hence the document of a key is always the one of its last successful put.
RowsOf(table, k) == SelectSeq(table, LAMBDA row : row.source_repo = k)
LastEvent(l) == IF l = <<>> THEN "none" ELSE l[Len(l)].event
SuccessfulPut(p) ==
    /\ pc[p] = "have_file"
    /\ pc'[p] = "count"
    /\ LastEvent(log'[p]) = "stored"
C12_OneDocumentLastPutWins ==
    /\ [](\A k \in RepoKeys : Len(RowsOf(sbom, k)) <= 1)
    /\ [][/\ \A p \in Workers :
               SuccessfulPut(p)
               => /\ RowsOf(sbom', CurrentRepo(p))
                       = <<[source_repo |-> CurrentRepo(p), json_content |-> sbom_file[p]]>>
                  /\ \A k \in RepoKeys \ {CurrentRepo(p)} : RowsOf(sbom', k) = RowsOf(sbom, k)
          /\ sbom' # sbom => \E p \in Workers : SuccessfulPut(p)]_vars
\* Both scans have put a document for the same key, and the key has one row.
C12_Witness ==
    \E p \in Scans, q \in Scans, k \in RepoKeys :
        /\ p # q
        /\ \E i \in 1..Len(log[p]) : log[p][i] = [repo |-> k, event |-> "stored"]
        /\ LastEvent(log[q]) = "stored" /\ CurrentRepo(q) = k /\ pc[q] = "count"
        /\ Len(sbom) = 1
        /\ RowsOf(sbom, k) = <<[source_repo |-> k, json_content |-> BomB]>>
        /\ Len(repos[p]) = 1 /\ pc[p] = "done"

\* ------------------------------------------------- claims about the queries
\* The package entries of a stored document: the objects of its package array.
PackageEntries(doc) ==
    IF doc.shape = "array"
    THEN SelectSeq(doc.packages, LAMBDA e : e.type = "object")
    ELSE <<>>
\* How many entries of all stored documents have identity id.
Occurrences(id) ==
    LET n[i \in 0..Len(sbom)] ==
            IF i = 0 THEN 0
            ELSE n[i - 1] + Len(SelectSeq(PackageEntries(sbom[i].json_content),
                                          LAMBDA e : e.SPDXID = id))
    IN  n[Len(sbom)]
\* The identities that occur in the stored documents.
StoredIdentities ==
    UNION {{PackageEntries(sbom[i].json_content)[j].SPDXID :
                j \in 1..Len(PackageEntries(sbom[i].json_content))} : i \in 1..Len(sbom)}
        \ {Null}
\* text contains pattern, letter for letter.
Contains(text, pattern) ==
    \E i \in 0..(Len(text) - Len(pattern)) :
        \A j \in 1..Len(pattern) : text[i + j] = pattern[j]
Githubaction == <<"g", "i", "t", "h", "u", "b", "a", "c", "t", "i", "o", "n">>

\* C13: whatever the store holds, get_top_dependencies(n) returns at most n
\* rows, no identity twice, each with the number of its occurrences over all
\* documents, the counts strictly falling from row to row, no NULL identity and
\* no identity that contains "githubaction".
C13_TopDependencies ==
    answer.op = "get_top_dependencies"
    => /\ ~answer.error
       /\ Len(answer.rows) <= answer.limit
       /\ \A i \in 1..Len(answer.rows) :
            /\ answer.rows[i].package_name # Null
            /\ ~Contains(answer.rows[i].package_name, Githubaction)
            /\ answer.rows[i].occurrence_count = Occurrences(answer.rows[i].package_name)
            /\ \A j \in 1..Len(answer.rows) :
                i < j => /\ answer.rows[i].package_name # answer.rows[j].package_name
                         /\ answer.rows[i].occurrence_count > answer.rows[j].occurrence_count

\* The identities of the rows returned.
Returned == {answer.rows[i].package_name : i \in 1..Len(answer.rows)}
\* A result of get_top_dependencies that LIMIT did not cut.
UncutTopDependencies ==
    /\ answer.op = "get_top_dependencies"
    /\ ~answer.error
    /\ Len(answer.rows) < answer.limit
\* C14 as stated: the filter is case-sensitive: a stored identity is left out
\* of the rows if and only if it contains the lower-case text "githubaction".
C14_Original ==
    UncutTopDependencies
    => \A id \in StoredIdentities : id \notin Returned <=> Contains(id, Githubaction)
\* C14 amended: the filter ignores the case of ASCII letters: a stored identity
\* is left out if and only if it contains "githubaction" in any letter case.
LowerCase(c) ==
    CASE c = "A" -> "a" [] c = "G" -> "g" [] c = "H" -> "h" [] OTHER -> c
ContainsAnyCase(text, pattern) ==
    \E i \in 0..(Len(text) - Len(pattern)) :
        \A j \in 1..Len(pattern) : LowerCase(text[i + j]) = LowerCase(pattern[j])
C14_FilterIgnoresCase ==
    UncutTopDependencies
    => \A id \in StoredIdentities :
            /\ id \notin Returned <=> ContainsAnyCase(id, Githubaction)
            /\ id \in Returned
               => \E i \in 1..Len(answer.rows) :
                    /\ answer.rows[i].package_name = id
                    /\ answer.rows[i].occurrence_count = Occurrences(id)
\* The store holds "githubactions-x" and "x-GitHubAction" beside two other
\* identities, and the two others are the rows.
C14_Witness ==
    /\ UncutTopDependencies
    /\ {IdActionLower, IdActionMixed} \subseteq StoredIdentities
    /\ Returned = {IdA, IdB}

\* All package entries of the stored documents, document by document.
AllEntries ==
    LET all[i \in 0..Len(sbom)] ==
            IF i = 0 THEN <<>> ELSE all[i - 1] \o PackageEntries(sbom[i].json_content)
    IN  all[Len(sbom)]
\* C15: whatever the store holds, get_dependency_stats returns unique = the
\* number of distinct non-null identities, total = the number of package
\* entries with a non-null identity, sbom_count = the number of stored
\* documents; and total >= unique.
C15_DependencyStats ==
    answer.op = "get_dependency_stats"
    => /\ ~answer.error
       /\ answer.rows[1].unique_dependencies = Cardinality(StoredIdentities)
       /\ answer.rows[1].total_occurrences
            = Len(SelectSeq(AllEntries, LAMBDA e : e.SPDXID # Null))
       /\ answer.rows[1].sbom_count = Len(sbom)
       /\ answer.rows[1].total_occurrences >= answer.rows[1].unique_dependencies

\* The document stored for a key (NoDoc when there is none).
DocumentOf(k) ==
    IF \E i \in 1..Len(sbom) : sbom[i].source_repo = k
    THEN sbom[CHOOSE i \in 1..Len(sbom) : sbom[i].source_repo = k].json_content
    ELSE NoDoc
\* C16: get_dependencies_by_repo(k) returns one record per package entry of
\* the document stored for k, in which a field the entry lacks is NULL, never
\* fails, and returns nothing for a key without a document.
C16_DependenciesByRepo ==
    answer.op = "get_dependencies_by_repo"
    => LET entries == PackageEntries(DocumentOf(answer.key))
       IN  /\ ~answer.error
           /\ Len(answer.rows) = Len(entries)
           /\ \A i \in 1..Len(answer.rows) :
                answer.rows[i] = [package_name |-> entries[i].SPDXID,
                                  name |-> entries[i].name,
                                  version |-> entries[i].versionInfo,
                                  license |-> entries[i].licenseConcluded]

\* C17: get_repositories_with_sbom returns exactly the keys stored, each
\* once, in ascending order, as many as get_sbom_count counts.
C17_RepositoriesSorted ==
    answer.op = "get_repositories_with_sbom"
    => /\ ~answer.error
       /\ {answer.rows[i] : i \in 1..Len(answer.rows)} = StoredKeys(sbom)
       /\ \A i \in 1..Len(answer.rows) : \A j \in 1..Len(answer.rows) :
            i < j => answer.rows[i][1] = answer.rows[j][1]
                     /\ answer.rows[i][2] < answer.rows[j][2]
       /\ Len(answer.rows) = GetSbomCount(sbom)
\* Two repositories were stored, the one that sorts last first.
C17_Witness ==
    /\ answer.op = "get_repositories_with_sbom"
    /\ Len(answer.rows) = 2
    /\ sbom[1].source_repo = FullName(PublicRepo(2))
    /\ sbom[2].source_repo = FullName(PublicRepo(1))

\* A document whose package array is there and holds objects only.
WellFormed(doc) ==
    /\ doc.shape = "array"
    /\ \A i \in 1..Len(doc.packages) : doc.packages[i].type = "object"
\* The store with an empty package array in place of every other document.
Sanitized ==
    [i \in 1..Len(sbom) |->
        [source_repo |-> sbom[i].source_repo,
         json_content |-> IF WellFormed(sbom[i].json_content)
                          THEN sbom[i].json_content ELSE BomEmpty]]
\* C18: a document whose "packages" path is missing or malformed makes no
\* query fail, and each query returns what it returns for the store in which
\* that document has an empty package array.
C18_MalformedContributesNothing ==
    /\ answer.op = "get_top_dependencies"
       => [error |-> answer.error, rows |-> answer.rows]
            \in GetTopDependencies(Sanitized, answer.limit)
    /\ answer.op = "get_dependency_stats"
       => /\ ~answer.error
          /\ answer.rows[1].sbom_count = Len(sbom)
    /\ answer.op = "get_dependencies_by_repo"
       => [error |-> answer.error, rows |-> answer.rows]
            = GetDependenciesByRepo(Sanitized, answer.key)

\* ------------------------------------------- claims about failures in a scan
\* s is a prefix of t.
IsPrefix(s, t) == Len(s) <= Len(t) /\ SubSeq(t, 1, Len(s)) = s
\* The BOM request of the current repository ended without a response (network
\* failure) or with a 200 whose body is no JSON.
FetchFailed(p) ==
    /\ pc[p] = "ret"
    /\ rq[p].kind = "sbom"
    /\ resp[p] = None \/ (resp[p].status = 200 /\ ~resp[p].jsonOk)
\* C19: a repository whose BOM fetch fails (network failure, malformed
\* response) gets one message appended to the error list of its scan, and the
\* scan then goes on with the next repository; error lists only grow, and no
\* stored document or count is taken back.
C19_FetchErrorRecorded ==
    [][/\ \A p \in Scans :
            /\ (FetchFailed(p) /\ pc'[p] # pc[p])
               => /\ Len(ErrorsOf(analysis_progress', p)) = Len(ErrorsOf(analysis_progress, p)) + 1
                  /\ ErrorsOf(analysis_progress', p)[Len(ErrorsOf(analysis_progress', p))].repo
                        = CurrentRepo(p)
            /\ (pc[p] = "persist_exc" /\ pc'[p] # pc[p]) => pc'[p] = "loop"
            /\ IsPrefix(ErrorsOf(analysis_progress, p), ErrorsOf(analysis_progress', p))
            /\ processed_count'[p] >= processed_count[p]
       /\ StoredKeys(sbom) \subseteq StoredKeys(sbom')]_vars

\* C20: when store_sbom fails it returns False without raising and leaves the
\* table as it was; the repository is counted once, and the scan goes on with
\* the next repository: when the loop takes its next turn the count equals the
\* number of repositories taken.
StoreFailedFor(p) ==
    \E i \in 1..Len(log[p]) :
        log[p][i] = [repo |-> CurrentRepo(p), event |-> "store_failed"]
C20_StoreFailureCountedOnce ==
    /\ [](\A p \in Scans :
            (idx[p] > 0 /\ StoreFailedFor(p))
            => /\ pc[p] # "dead"
               /\ pc[p] = "loop" => processed_count[p] = idx[p]
               /\ pc[p] = "loop" => Row(p).processed_repos = idx[p])
    /\ [][\A p \in Workers :
            (pc[p] = "have_file" /\ LastEvent(log'[p]) = "store_failed" /\ log'[p] # log[p])
            => /\ sbom' = sbom
               /\ pc'[p] = "count"
               /\ ErrorsOf(analysis_progress', p) = ErrorsOf(analysis_progress, p)]_vars

\* ------------------------------------------------ claims about scans as a whole
\* The public repositories of a listing, in listing order.
Public(listing) == SelectSeq(listing, LAMBDA repo : repo.visibility = "public")
\* The keys of the repositories some scan was started with.
EnumeratedKeys == UNION {ListedKeys(p) : p \in Scans}
\* C21: every key of the document store is the full name of a repository that
\* some scan's listing enumerated; a scan is started with the public
\* repositories of the one listing taken at its start, total_repos is their
\* number, the list is never taken again, and every BOM request of the scan is
\* for one of them.
C21_StoredKeysWereListed ==
    /\ [](/\ StoredKeys(sbom) \subseteq EnumeratedKeys
          /\ \A p \in Scans :
                /\ Row(p).total_repos = Len(repos[p])
                /\ \A i \in 1..Len(repos[p]) : repos[p][i].visibility = "public"
                /\ rq[p].kind = "sbom"
                   => idx[p] \in 1..Len(repos[p]) /\ CurrentRepo(p) \in ListedKeys(p))
    /\ [][\A p \in Workers :
            /\ (sid[p] = 0 /\ sid'[p] # 0)
               => /\ rq[p].kind = "list"
                  /\ repos'[p] = Public(resp[p].listing)
                  /\ analysis_sessions'[sid'[p]].total_repos = Len(Public(resp[p].listing))
            /\ sid[p] # 0
               => /\ repos'[p] = repos[p]
                  /\ rq'[p].kind # "list"
                  /\ analysis_sessions'[sid[p]].total_repos
                        = analysis_sessions[sid[p]].total_repos]_vars
\* A scan of two repositories has returned; the store holds the document of
\* the second one only, and the other request's scan was started with one.
C21_Witness ==
    \E p \in Scans, q \in Scans :
        /\ pc[p] = "done" /\ Len(repos[p]) = 2
        /\ StoredKeys(sbom) = {FullName(repos[p][2])}
        /\ Len(repos[q]) = 1 /\ Row(q).total_repos = 1

\* C22: concurrent scans are isolated: the session id a start-scan request
\* gets is that of no other session, and a step of one scan's request or task
\* leaves every session row and every progress record but its own as it was.
C22_ScansIsolated ==
    /\ [](\A p \in Scans, q \in Scans : p # q => sid[p] # sid[q])
    /\ [][\A p \in Workers :
            /\ (sid[p] = 0 /\ sid'[p] # 0)
               => /\ sid'[p] \notin SessionRows
                  /\ \A q \in Workers \ {p} : sid'[p] # sid[q]
            /\ pc'[p] # pc[p]
               => /\ \A i \in SessionRows \ {sid'[p]} :
                        analysis_sessions'[i] = analysis_sessions[i]
                  /\ \A s \in SessionIds \ {sid'[p]} :
                        analysis_progress'[s] = analysis_progress[s]]_vars
\* One scan has completed both its repositories while the other one, started
\* before it finished, is at its first repository with nothing counted.
C22_Witness ==
    \E p \in Scans, q \in Scans :
        /\ p # q
        /\ Row(p).status = "completed" /\ Row(p).processed_repos = 2
        /\ Progress(p).status = "completed"
        /\ Row(q).processed_repos = 0 /\ Row(q).status = "pending"
        /\ Progress(q).status = "processing" /\ Progress(q).processed = 0
        /\ Progress(q).current_repo # <<>>

\* ------------------------------------------------ claim about the session list
\* C23: get_analysis_sessions(limit) returns at most limit sessions, no
\* session twice, most recent first: a session created later than another one
\* (it has the larger id) never comes after it in the list, also when both were
\* created within the same second.
C23_MostRecentFirst ==
    answer.op = "get_analysis_sessions"
    => /\ Len(answer.rows) <= answer.limit
       /\ \A i \in 1..Len(answer.rows) : \A j \in 1..Len(answer.rows) :
            i < j => answer.rows[i].id > answer.rows[j].id

\* ---------------------------------------------- claims about pacing and polls
SleepEvents == {"sleep 0.1", "sleep 0.5", "sleep 2.0"}
\* The scan's next BOM request starts.
StartsFetch(p) == rq'[p].kind = "sbom" /\ rq[p].kind # "sbom"
\* The response of a quota poll reports a remaining quota of 20 or less.
ReportsLowQuota(r) ==
    r # None /\ r.status = 200 /\ r.jsonOk /\ r.core \in {"10", "11", "20"}
\* C24: between every two consecutive BOM fetches of a scan a pacing delay is
\* slept, whatever the outcome of the repository before was: after a processed
\* count that is a multiple of 5 a quota poll is made and the delay is 2.0 if
\* it reports remaining <= 20 and 0.5 otherwise; after every other count it is
\* 0.1.
C24_PacedBetweenFetches ==
    [][\A p \in Scans :
        /\ (StartsFetch(p) /\ idx[p] >= 1) => LastEvent(log[p]) \in SleepEvents
        /\ (pc[p] = "pace" /\ pc'[p] # "pace")
           => IF processed_count[p] % 5 = 0
              THEN pc'[p] = "http" /\ rq'[p].kind \in RateKinds
              ELSE pc'[p] = "loop" /\ LastEvent(log'[p]) = "sleep 0.1"
        /\ (pc[p] = "ret" /\ rq[p].kind = "pacing" /\ pc'[p] # pc[p])
           => /\ pc'[p] = "loop"
              /\ LastEvent(log'[p])
                    = IF ReportsLowQuota(resp[p]) THEN "sleep 2.0" ELSE "sleep 0.5"]_vars

\* The quota polls a scan has made.
Polls(p) == Len(SelectSeq(log[p], LAMBDA e : e.event = "poll"))
\* A quota poll of the scan starts.
StartsPoll(p) == rq'[p].kind \in RateKinds /\ rq'[p].kind # rq[p].kind
\* C25: a scan polls the quota only right after its processed count has become
\* a multiple of 5 (the pacing poll) or of 20 (the monitoring poll before it),
\* one poll each; so a scan of N repositories makes at most N / 5 + N / 20
\* polls (rounded down).
C25_PollsBounded ==
    /\ [](\A p \in Scans :
            Polls(p) <= (Len(repos[p]) \div 5) + (Len(repos[p]) \div 20))
    /\ [][\A p \in Scans :
            StartsPoll(p)
            => /\ Polls(p)' = Polls(p) + 1
               /\ processed_count[p] % 5 = 0
               /\ rq'[p].kind = "monitor"
                  => pc[p] = "pace" /\ processed_count[p] % 20 = 0
               /\ rq'[p].kind = "pacing"
                  => \/ pc[p] = "pace" /\ processed_count[p] % 20 # 0
                     \/ rq[p].kind = "monitor" /\ processed_count[p] % 20 = 0]_vars

\* The poll got no response, an error status, or a 200 whose body is no JSON.
FailedPoll(r) == r = None \/ r.status # 200 \/ ~r.jsonOk
\* get_rate_limit_info returns to the loop body.
PollReturns(p) == pc[p] = "ret" /\ rq[p].kind \in RateKinds /\ pc'[p] # pc[p]
\* What the return of the poll adds to the history.
AddedEvents(p) ==
    {log'[p][i].event : i \in (Len(log[p]) + 1)..Len(log'[p])}
\* C26: a quota poll that fails returns the unknown sentinel instead of
\* raising; the orchestrator then sleeps 0.5 (pacing poll) or prints no warning
\* and makes the pacing poll (monitoring poll), adds nothing to the error list
\* and does not count the repository again.
C26_FailedPollIsUnknown ==
    [][\A p \in Scans :
        (PollReturns(p) /\ FailedPoll(resp[p]))
        => /\ "poll_unknown" \in AddedEvents(p)
           /\ "poll_raised" \notin AddedEvents(p)
           /\ "low_quota_warning" \notin AddedEvents(p)
           /\ rq[p].kind = "pacing"
              => pc'[p] = "loop" /\ LastEvent(log'[p]) = "sleep 0.5"
           /\ rq[p].kind = "monitor"
              => pc'[p] = "http" /\ rq'[p].kind = "pacing"
           /\ ErrorsOf(analysis_progress', p) = ErrorsOf(analysis_progress, p)
           /\ processed_count'[p] = processed_count[p]
           /\ analysis_progress'[sid[p]].processed = analysis_progress[sid[p]].processed]_vars

\* ------------------------------------------------- claims about order in a scan
\* C27: a scan handles its repositories one at a time in listing order: a BOM
\* request starts only when no request of the scan is under way, for the
\* repository listed next, after every repository taken before has been
\* counted (locally, in the progress record and in the session row); and the
\* progress record's current repository changes only then, to that repository.
C27_SequentialInListingOrder ==
    /\ [](\A p \in Scans :
            Progress(p).current_repo # <<>>
            => idx[p] >= 1 /\ Progress(p).current_repo = FullName(repos[p][idx[p]]))
    /\ [][\A p \in Scans :
            /\ StartsFetch(p)
               => /\ rq[p] = NoRq
                  /\ idx'[p] = idx[p] + 1
                  /\ processed_count[p] >= idx[p]
                  /\ Progress(p).processed >= idx[p]
                  /\ Row(p).processed_repos >= idx[p]
                  /\ analysis_progress'[sid[p]].current_repo = FullName(repos[p][idx[p] + 1])
            /\ idx'[p] # idx[p] => StartsFetch(p)
            /\ analysis_progress'[sid[p]].current_repo # Progress(p).current_repo
               => StartsFetch(p)]_vars
\* The third request of a scan is under way: its listing came with the
\* highest name first, so the current repository is the one named 1.
C27_Witness ==
    \E p \in Scans :
        /\ InFlight(p) /\ idx[p] = 3
        /\ repos[p] = Descending(3)
        /\ Progress(p).current_repo = FullName(PublicRepo(1))
        /\ Progress(p).processed = 2

\* ----------------------------------- claim about statistics while scans write
\* Every content the queried store may have: one row per key.
PossibleTables ==
    UNION {{t \in [1..n -> [source_repo : StoreKeys, json_content : StoredDocs]] :
                \A i \in 1..n : \A j \in 1..n :
                    t[i].source_repo = t[j].source_repo => i = j}
           : n \in 0..MaxStored}
\* C28: the three numbers get_dependency_stats returns belong together, also
\* when scans write to the store while it runs: total_occurrences >=
\* unique_dependencies, and there is one store content of which they are the
\* unique count, the total count and the document count.
C28_StatsOfOneContent ==
    (answer.op = "get_dependency_stats" /\ ~answer.error)
    => /\ answer.rows[1].total_occurrences >= answer.rows[1].unique_dependencies
       /\ \E t \in PossibleTables :
            /\ ~Raises(Joined(t))
            /\ answer.rows[1].unique_dependencies = UniqueDeps(t)
            /\ answer.rows[1].total_occurrences = TotalOccurrences(t)
            /\ answer.rows[1].sbom_count = GetSbomCount(t)

\* ----------------------------- claim about the progress record and the session
\* C29: for every scan, in every state: persisted processed_repos <= in-memory
\* processed <= persisted processed_repos + 1, in-memory processed <= total;
\* and a persisted status completed implies an in-memory status completed with
\* the same count.
C29_ProgressAgreesWithSession ==
    \A p \in Scans :
        Progress(p).status # "none"
        => /\ Row(p).processed_repos <= Progress(p).processed
           /\ Progress(p).processed <= Row(p).processed_repos + 1
           /\ Progress(p).processed <= Progress(p).total
           /\ Row(p).status = "completed"
              => /\ Progress(p).status = "completed"
                 /\ Progress(p).processed = Row(p).processed_repos

====
